---- MODULE Spec2Model ----
(***************************************************************************)
(* A model of the_snake.py: the Snake and Apple objects, handle_keys and   *)
(* the loop of main().  Cells are pixel pairs <<x, y>> as in the source    *)
(* (multiples of GRID_SIZE); a direction is a pair of cell deltas.         *)
(*                                                                         *)
(* Four specifications share the definitions:                              *)
(*   Spec      the loop of main, one iteration per step;                   *)
(*   SpecKeys  one iteration of the loop, handle_keys one event per step;  *)
(*   SpecMove  Snake.move and the steering alone, on the 640 x 480 screen; *)
(*   SpecApple Apple.randomize_position, one statement per step.           *)
(***************************************************************************)
EXTENDS Integers, Sequences, FiniteSets, TLC

\* ------------------------------------------------------------------------
\* Bounds of the model.
\* The loop of main is explored on a board smaller than the source's
\* 32 x 24 cells, of the same shape: an even number of cells on each axis,
\* so that SCREEN_CENTER is a grid cell, and at least 4 cells on each axis.
HalfGridWidth == 2
HalfGridHeight == 2
\* Spec: the longest list pg.event.get() returns in one iteration, and the
\* number of iterations a run is followed for: five are what the snake
\* needs to eat four apples and then run into itself.
MaxEvents == 1
MaxTicks == 5
\* SpecKeys: the longest list pg.event.get() returns.
MaxPolled == 2
\* SpecMove: the number of moves made in one direction, and the longest
\* snake.
MaxMoves == 32
MaxBody == 2

\* ------------------------------------------------------------------------
\* Program constants.
SCREEN_WIDTH == 640
SCREEN_HEIGHT == 480
GRID_SIZE == 20

UP == <<0, -1>>
DOWN == <<0, 1>>
LEFT == <<-1, 0>>
RIGHT == <<1, 0>>
Directions == {UP, DOWN, LEFT, RIGHT}

INITIAL_SPEED == 10
MIN_SPEED == 5
MAX_SPEED == 20

\* Python's None (an empty tuple is as falsy as None is).
None == <<>>

min(a, b) == IF a < b THEN a ELSE b
max(a, b) == IF a > b THEN a ELSE b

VARIABLES
    screen_width,       \* the SCREEN_WIDTH the program runs with
    screen_height,      \* the SCREEN_HEIGHT the program runs with
    positions,          \* snake.positions, head first
    length,             \* snake.length
    direction,          \* snake.direction
    next_direction,     \* snake.next_direction
    last,               \* snake.last
    apple_position,     \* apple.position
    occupied_positions, \* apple.occupied_positions
    aliased,            \* apple.occupied_positions is snake.positions
    new_position,       \* Apple.randomize_position: its local new_position
    speed,              \* main: speed
    record_length,      \* main: record_length
    pc,                 \* "tick": at clock.tick; "keys": in the loop of
                        \* handle_keys; "exit": SystemExit was raised;
                        \* SpecApple: "sample", "test": in the loop of
                        \* randomize_position; "placed": it has returned
    events,             \* handle_keys: the events the for loop has not reached
    key_speed,          \* handle_keys: its local speed
    outcome,            \* what the last complete iteration of the loop of
                        \* main did: "move", "eat", "reset", "eat_reset"
    ticks,              \* the number of iterations of the loop of main
    origin,             \* SpecMove: the head when the direction was last set
    steps               \* SpecMove: the moves made since

snake_vars == <<positions, length, direction, next_direction, last>>
apple_vars == <<apple_position, occupied_positions, aliased, new_position>>
screen_vars == <<screen_width, screen_height>>
vars == <<screen_vars, snake_vars, apple_vars, speed, record_length, pc, events,
          key_speed, outcome, ticks, origin, steps>>

\* ------------------------------------------------------------------------
\* Grid geometry.
GRID_WIDTH == screen_width \div GRID_SIZE
GRID_HEIGHT == screen_height \div GRID_SIZE
SCREEN_CENTER == <<screen_width \div 2, screen_height \div 2>>

\* ------------------------------------------------------------------------
\* Events.  An event of type QUIT, a KEYDOWN event with one of the keys the
\* program looks at, a KEYDOWN with any other key, or an event of another
\* type (KEYUP, mouse motion, ...).
Events ==
    {"QUIT", "K_ESCAPE", "K_UP", "K_DOWN", "K_LEFT", "K_RIGHT",
     "K_PLUS", "K_EQUALS", "K_MINUS", "K_OTHER", "KEYUP"}

\* handle_keys: direction_keys
direction_keys ==
    [k \in {"K_UP", "K_DOWN", "K_LEFT", "K_RIGHT"} |->
        CASE k = "K_UP" -> UP
          [] k = "K_DOWN" -> DOWN
          [] k = "K_LEFT" -> LEFT
          [] k = "K_RIGHT" -> RIGHT]

\* IsQuit without the escape key: a slip C9 has to notice.
IsQuit_TypeOnly(e) == e = "QUIT"

\* handle_keys: the test that ends the program.
IsQuit(e) == e \in {"QUIT", "K_ESCAPE"}
\* handle_keys: event.type == pg.KEYDOWN
IsKeyDown(e) == e \notin {"QUIT", "KEYUP"}

\* Accepts without a test: a slip C19 has to notice.
Accepts_Untested(dir, new_direction) == TRUE

\* Accepts with the test on the x deltas only: a slip C3 has to notice.
Accepts_XOnly(dir, new_direction) == new_direction[1] + dir[1] # 0

\* handle_keys: the test a requested direction has to pass.
Accepts(dir, new_direction) ==
    <<new_direction[1] + dir[1], new_direction[2] + dir[2]>> # <<0, 0>>

\* handle_keys: the direction branch of the for loop's body.
KeyDirection(dir, nd, e) ==
    IF e \in DOMAIN direction_keys /\ Accepts(dir, direction_keys[e])
    THEN direction_keys[e]
    ELSE nd

\* KeySpeed without min and max: a slip C8 has to notice.
KeySpeed_Unclamped(sp, e) ==
    IF e \in {"K_PLUS", "K_EQUALS"} THEN sp + 1
    ELSE IF e = "K_MINUS" THEN sp - 1
    ELSE sp

\* handle_keys: the speed branch of the for loop's body.
KeySpeed(sp, e) ==
    IF e \in {"K_PLUS", "K_EQUALS"} THEN min(sp + 1, MAX_SPEED)
    ELSE IF e = "K_MINUS" THEN max(sp - 1, MIN_SPEED)
    ELSE sp

\* handle_keys: the body of the for loop for an event that is not a quit
\* event.  h is [next_direction, speed, quit, rest]; dir is snake.direction.
HandleEvent(dir, h, e) ==
    IF ~IsKeyDown(e) THEN h
    ELSE [h EXCEPT !.next_direction = KeyDirection(dir, h.next_direction, e),
                   !.speed = KeySpeed(h.speed, e)]

\* handle_keys: the for loop over the events pg.event.get() returned.  A
\* quit event raises SystemExit: the events behind it (rest) are not
\* looked at.
RECURSIVE HandleLoop(_, _, _)
HandleLoop(dir, h, evs) ==
    IF evs = <<>> THEN h
    ELSE IF IsQuit(Head(evs)) THEN [h EXCEPT !.quit = TRUE, !.rest = Tail(evs)]
    ELSE HandleLoop(dir, HandleEvent(dir, h, Head(evs)), Tail(evs))

handle_keys(dir, nd, sp, evs) ==
    HandleLoop(dir, [next_direction |-> nd, speed |-> sp, quit |-> FALSE,
                     rest |-> <<>>], evs)

\* All lists of at most n events.
RECURSIVE Batches(_)
Batches(n) ==
    IF n = 0 THEN {<<>>}
    ELSE LET B == Batches(n - 1)
         IN  B \cup {Append(b, e) : b \in {c \in B : Len(c) = n - 1}, e \in Events}

\* ------------------------------------------------------------------------
\* Snake.

\* NewHead with a step of two cells: a slip C20 has to notice.
NewHead_TwoCells(head, dir) ==
    <<(head[1] + 2 * dir[1] * GRID_SIZE + screen_width) % screen_width,
      (head[2] + 2 * dir[2] * GRID_SIZE + screen_height) % screen_height>>

\* NewHead without the wrap-around: a slip C7 has to notice.
NewHead_NoWrap(head, dir) ==
    <<head[1] + dir[1] * GRID_SIZE, head[2] + dir[2] * GRID_SIZE>>

\* NewHead with x wrapped at the screen's height: a slip C10 has to notice.
NewHead_WrapByHeight(head, dir) ==
    <<(head[1] + dir[1] * GRID_SIZE + screen_height) % screen_height,
      (head[2] + dir[2] * GRID_SIZE + screen_height) % screen_height>>

\* Snake.move: the new head, wrapped around the screen.
NewHead(head, dir) ==
    <<(head[1] + dir[1] * GRID_SIZE + screen_width) % screen_width,
      (head[2] + dir[2] * GRID_SIZE + screen_height) % screen_height>>

\* update_direction that clears the request without applying it: a slip
\* C13 has to notice.
update_direction_Dropped(dir, nd) == [direction |-> dir, next_direction |-> None]

\* Snake.update_direction on the fields it reads.
update_direction(dir, nd) ==
    IF nd # None THEN [direction |-> nd, next_direction |-> None]
    ELSE [direction |-> dir, next_direction |-> nd]

\* list.pop() returns the last element and leaves the others.
Last(s) == s[Len(s)]
Front(s) == SubSeq(s, 1, Len(s) - 1)

\* move with the new head put at the end of the list: a slip C15 has to
\* notice.
move_Appends(pos, len, dir, nd, lst) ==
    LET d == IF nd # None THEN nd ELSE dir
        inserted == pos \o <<NewHead(pos[1], d)>>
        pops == Len(inserted) > len
    IN  [positions |-> IF pops THEN Front(inserted) ELSE inserted,
         direction |-> d,
         last |-> IF pops THEN Last(inserted) ELSE lst]

\* move without the pop: a slip C18 has to notice.
move_NeverPops(pos, len, dir, nd, lst) ==
    LET d == IF nd # None THEN nd ELSE dir
    IN  [positions |-> <<NewHead(pos[1], d)>> \o pos,
         direction |-> d,
         last |-> lst]

\* move with >= for >: a slip C2 has to notice.
move_PopsAtLength(pos, len, dir, nd, lst) ==
    LET d == IF nd # None THEN nd ELSE dir
        inserted == <<NewHead(pos[1], d)>> \o pos
        pops == Len(inserted) >= len
    IN  [positions |-> IF pops THEN Front(inserted) ELSE inserted,
         direction |-> d,
         last |-> IF pops THEN Last(inserted) ELSE lst]

\* Snake.move on the fields it reads.
move(pos, len, dir, nd, lst) ==
    LET d == IF nd # None THEN nd ELSE dir
        inserted == <<NewHead(pos[1], d)>> \o pos
        pops == Len(inserted) > len
    IN  [positions |-> IF pops THEN Front(inserted) ELSE inserted,
         direction |-> d,
         last |-> IF pops THEN Last(inserted) ELSE lst]

\* reset without the assignment to length: a slip C6 has to notice.
reset_KeepsLength(pos, len, nd) ==
    [positions |-> <<SCREEN_CENTER>>, length |-> len, next_direction |-> None]

\* Snake.reset: the fields it assigns, but for the random direction.
reset(pos, len, nd) ==
    [positions |-> <<SCREEN_CENTER>>, length |-> 1, next_direction |-> None]

Range(s) == {s[i] : i \in DOMAIN s}

\* Collides with the head looked for in positions[1:-1]: a slip C4 has to
\* notice.
Collides_SkipsTail(pos) == pos[1] \in Range(SubSeq(pos, 2, Len(pos) - 1))

\* main: the test for self-collision.
Collides(pos) == pos[1] \in Range(Tail(pos))

\* ------------------------------------------------------------------------
\* Apple.

\* The cells randint(0, GRID_WIDTH - 1) * GRID_SIZE and
\* randint(0, GRID_HEIGHT - 1) * GRID_SIZE can give.
AllCells ==
    {<<cx * GRID_SIZE, cy * GRID_SIZE>> :
        cx \in 0..(GRID_WIDTH - 1), cy \in 0..(GRID_HEIGHT - 1)}

\* Free with the sample tested against the head only: a slip C16 has to
\* notice.
Free_HeadOnly(c, occupied) == occupied = <<>> \/ c # occupied[1]

\* Apple.randomize_position: the test a sample has to pass.
Free(c, occupied) == c \notin Range(occupied)

\* randomize_position without the test of the sample: a slip C11 has to
\* notice.
randomize_position_Untested(occupied) == AllCells

\* Apple.randomize_position: the positions the sampling loop can end with.
randomize_position(occupied) == AllCells \ Range(occupied)

\* Occupied for an apple that holds the list it was given at construction
\* as a copy: a slip C17 has to notice.
Occupied_Copied(is_alias, occupied, pos) == occupied

\* main: the list apple.occupied_positions refers to once the snake has
\* moved.  Snake.move changes snake.positions in place, so the apple sees
\* the change for as long as it holds that very list.
Occupied(is_alias, occupied, pos) == IF is_alias THEN pos ELSE occupied

\* NewRecord with < for >: a slip C5 has to notice.
NewRecord_Reversed(len, record) == IF len < record THEN len ELSE record

\* main: the update of record_length.
NewRecord(len, record) == IF len > record THEN len ELSE record

\* ------------------------------------------------------------------------
\* The loop of main.

\* main, before the loop: Snake(), Apple(occupied_positions=snake.positions).
Start ==
    /\ positions = <<SCREEN_CENTER>>
    /\ length = 1
    /\ direction \in Directions
    /\ next_direction = None
    /\ last = None
    /\ occupied_positions = positions
    /\ aliased = TRUE
    /\ apple_position \in randomize_position(positions)
    /\ new_position = apple_position
    /\ speed = INITIAL_SPEED
    /\ record_length = 1
    /\ outcome = "start"
    /\ ticks = 0

Init ==
    /\ screen_width = 2 * HalfGridWidth * GRID_SIZE
    /\ screen_height = 2 * HalfGridHeight * GRID_SIZE
    /\ Start
    /\ pc = "tick"
    /\ events = <<>>
    /\ key_speed = speed
    /\ origin = None
    /\ steps = 0

\* An iteration of the loop of main in which handle_keys raises SystemExit.
\* h is what handle_keys had done by then.
Quit(h) ==
    /\ h.quit
    /\ pc' = "exit"
    /\ next_direction' = h.next_direction
    /\ key_speed' = h.speed
    /\ events' = h.rest
    /\ ticks' = ticks + 1
    /\ UNCHANGED <<positions, length, direction, last, apple_vars, speed,
                   record_length, outcome, screen_vars, origin, steps>>

\* A complete iteration of the loop of main.  h is the result of
\* handle_keys.
Step(h) ==
    /\ ~h.quit
    /\ LET u == update_direction(direction, h.next_direction)
           m == move(positions, length, u.direction, u.next_direction, last)
           eats == m.positions[1] = apple_position
           occ == Occupied(aliased, occupied_positions, m.positions)
           len1 == IF eats THEN length + 1 ELSE length
           hits == Collides(m.positions)
           r == reset(m.positions, len1, u.next_direction)
       IN  /\ \E a1 \in (IF eats THEN randomize_position(occ) ELSE {apple_position}) :
                IF hits
                THEN /\ positions' = r.positions
                     /\ length' = r.length
                     /\ direction' \in Directions
                     /\ next_direction' = r.next_direction
                     /\ apple_position' \in randomize_position(occ)
                     /\ aliased' = FALSE
                     /\ outcome' = IF eats THEN "eat_reset" ELSE "reset"
                ELSE /\ positions' = m.positions
                     /\ length' = len1
                     /\ direction' = m.direction
                     /\ next_direction' = u.next_direction
                     /\ apple_position' = a1
                     /\ aliased' = aliased
                     /\ outcome' = IF eats THEN "eat" ELSE "move"
           /\ last' = m.last
           /\ occupied_positions' = occ
           /\ new_position' = IF eats \/ hits THEN apple_position'
                               ELSE new_position
           /\ record_length' = IF eats THEN NewRecord(len1, record_length)
                               ELSE record_length
    /\ speed' = h.speed
    /\ key_speed' = h.speed
    /\ events' = <<>>
    /\ pc' = "tick"
    /\ ticks' = ticks + 1
    /\ UNCHANGED <<screen_vars, origin, steps>>

\* The lists of events pg.event.get() can return in Spec, and the results
\* handle_keys can have over them.
Polled == Batches(MaxEvents)
KeyResults ==
    {handle_keys(direction, next_direction, speed, evs) : evs \in Polled}

Tick ==
    /\ pc = "tick"
    /\ ticks < MaxTicks
    /\ \E h \in KeyResults : Step(h)

Exit ==
    /\ pc = "tick"
    /\ ticks < MaxTicks
    /\ \E h \in KeyResults : Quit(h)

Next == Tick \/ Exit

Spec == Init /\ [][Next]_vars

\* ------------------------------------------------------------------------
\* SpecKeys: one iteration of the loop of main, with the for loop of
\* handle_keys taken one event per step.

Opposite(d) == <<-d[1], -d[2]>>

\* The snake at the top of an iteration, when pg.event.get() has returned:
\* either a one-cell snake at the centre (in the first iteration, or when
\* it has come back to the centre along its direction), or a snake that has
\* eaten in each of the first four iterations, going down, right, up and
\* left around a square, and is back at the centre with four cells and
\* length 5: turned down, its head lands on its last cell.
FreshSnake ==
    /\ positions = <<SCREEN_CENTER>>
    /\ length = 1
    /\ record_length = 1
    /\ direction \in Directions
    /\ last \in {None, NewHead(SCREEN_CENTER, Opposite(direction))}
    /\ speed # INITIAL_SPEED => last # None
    /\ occupied_positions = positions
    /\ aliased = TRUE

CoiledSnake ==
    /\ positions = <<SCREEN_CENTER,
                     NewHead(SCREEN_CENTER, RIGHT),
                     NewHead(NewHead(SCREEN_CENTER, RIGHT), DOWN),
                     NewHead(SCREEN_CENTER, DOWN)>>
    /\ length = 5
    /\ record_length = 5
    /\ direction = LEFT
    /\ last = SCREEN_CENTER
    /\ occupied_positions = positions
    /\ aliased = TRUE

\* The snake at the top of the iteration after the one in which the coiled
\* snake turned down and was reset: snake.positions is a new list, and the
\* apple still holds the list the snake had when it ran into itself.
StaleBody ==
    <<NewHead(SCREEN_CENTER, DOWN),
      SCREEN_CENTER,
      NewHead(SCREEN_CENTER, RIGHT),
      NewHead(NewHead(SCREEN_CENTER, RIGHT), DOWN),
      NewHead(SCREEN_CENTER, DOWN)>>

ResetSnake ==
    /\ positions = <<SCREEN_CENTER>>
    /\ length = 1
    /\ record_length = 5
    /\ direction \in Directions
    /\ last = SCREEN_CENTER
    /\ occupied_positions = StaleBody
    /\ aliased = FALSE

\* The speed is what the keys pressed in earlier iterations have made it;
\* the apple is in front of a snake that goes left, or in a corner.
InitKeys ==
    /\ screen_width = 2 * HalfGridWidth * GRID_SIZE
    /\ screen_height = 2 * HalfGridHeight * GRID_SIZE
    /\ speed \in MIN_SPEED..MAX_SPEED
    /\ FreshSnake \/ CoiledSnake \/ ResetSnake
    /\ next_direction = None
    /\ apple_position \in {<<0, 0>>, NewHead(SCREEN_CENTER, LEFT)} \ {last}
    /\ new_position = apple_position
    /\ outcome = "start"
    /\ ticks = 0
    /\ pc = "keys"
    /\ events \in Batches(MaxPolled)
    /\ key_speed = speed
    /\ origin = None
    /\ steps = 0

\* handle_keys: what the for loop has done so far.
KeyState(is_quit, behind) ==
    [next_direction |-> next_direction, speed |-> key_speed,
     quit |-> is_quit, rest |-> behind]

\* handle_keys: one turn of the for loop, for an event that is not a quit
\* event.
KeyEvent ==
    /\ pc = "keys"
    /\ events # <<>>
    /\ ~IsQuit(Head(events))
    /\ LET h == HandleEvent(direction, KeyState(FALSE, <<>>), Head(events))
       IN  /\ next_direction' = h.next_direction
           /\ key_speed' = h.speed
    /\ events' = Tail(events)
    /\ UNCHANGED <<screen_vars, positions, length, direction, last, apple_vars,
                   speed, record_length, pc, outcome, ticks, origin, steps>>

\* handle_keys: the turn of the for loop that meets a quit event.
KeyQuit ==
    /\ pc = "keys"
    /\ events # <<>>
    /\ IsQuit(Head(events))
    /\ Quit(KeyState(TRUE, Tail(events)))

\* handle_keys returns, and main goes through the rest of the iteration.
KeyReturn ==
    /\ pc = "keys"
    /\ events = <<>>
    /\ Step(KeyState(FALSE, <<>>))

NextKeys == KeyEvent \/ KeyQuit \/ KeyReturn

SpecKeys == InitKeys /\ [][NextKeys]_vars

\* ------------------------------------------------------------------------
\* SpecMove: a snake on the 640 x 480 screen, of one cell at first, that is
\* steered and moved as handle_keys, Snake.update_direction and Snake.move
\* do it.

InitMove ==
    /\ screen_width = SCREEN_WIDTH
    /\ screen_height = SCREEN_HEIGHT
    /\ positions \in {<<c>> : c \in AllCells}
    /\ length \in 1..MaxBody
    /\ direction \in Directions
    /\ next_direction = None
    /\ last = None
    /\ apple_position = None
    /\ new_position = None
    /\ occupied_positions = <<>>
    /\ aliased = FALSE
    /\ speed = INITIAL_SPEED
    /\ record_length = 1
    /\ outcome = "start"
    /\ ticks = 0
    /\ pc = "tick"
    /\ events = <<>>
    /\ key_speed = speed
    /\ origin = positions[1]
    /\ steps = 0

\* snake.move()
SnakeMove ==
    /\ steps < MaxMoves
    /\ LET m == move(positions, length, direction, next_direction, last)
       IN  /\ positions' = m.positions
           /\ direction' = m.direction
           /\ last' = m.last
    /\ steps' = steps + 1
    /\ UNCHANGED <<screen_vars, length, next_direction, apple_vars, speed,
                   record_length, pc, events, key_speed, outcome, ticks, origin>>

\* A direction key that changes the direction: handle_keys,
\* then snake.update_direction().
SnakeTurn ==
    /\ \E e \in DOMAIN direction_keys :
          LET u == update_direction(direction,
                                    KeyDirection(direction, next_direction, e))
          IN  /\ u.direction # direction
              /\ direction' = u.direction
              /\ next_direction' = u.next_direction
    /\ origin' = positions[1]
    /\ steps' = 0
    /\ UNCHANGED <<screen_vars, positions, length, last, apple_vars, speed,
                   record_length, pc, events, key_speed, outcome, ticks>>

NextMove == SnakeMove \/ SnakeTurn

SpecMove == InitMove /\ [][NextMove]_vars

\* ------------------------------------------------------------------------
\* SpecApple: Apple.randomize_position with its loop taken one statement
\* per step, on the lists of cells an apple can hold.

\* The i-th cell (from 0) of a walk that starts at the centre and goes
\* through every cell of the board once, row by row, each row in the
\* direction opposite to the one before: the cells of a snake.
WalkCell(i) ==
    LET row == i \div GRID_WIDTH
        k == i % GRID_WIDTH
        col == IF row % 2 = 0 THEN k ELSE GRID_WIDTH - 1 - k
    IN  <<((col + GRID_WIDTH \div 2) % GRID_WIDTH) * GRID_SIZE,
          ((row + GRID_HEIGHT \div 2) % GRID_HEIGHT) * GRID_SIZE>>

Walk(n) == [i \in 1..n |-> WalkCell(i - 1)]

\* randomize_position is entered.  The apple holds the empty list
\* (Apple() without an argument), or the cells of a snake: the centre cell
\* alone (Apple(occupied_positions=snake.positions) in main), a longer
\* body, at most the whole board; or, after a reset, the list the snake
\* had when it ran into itself.  Its position is the cell of the snake's
\* head: the centre (GameObject.__init__, Snake.reset).
InitApple ==
    /\ screen_width = 2 * HalfGridWidth * GRID_SIZE
    /\ screen_height = 2 * HalfGridHeight * GRID_SIZE
    /\ occupied_positions \in
          {Walk(n) : n \in 0..(GRID_WIDTH * GRID_HEIGHT)} \cup {StaleBody}
    /\ aliased = (occupied_positions \notin {<<>>, StaleBody})
    /\ positions = IF aliased THEN occupied_positions ELSE <<SCREEN_CENTER>>
    /\ length = Len(positions)
    /\ direction = LEFT
    /\ next_direction = None
    /\ last = None
    /\ apple_position = SCREEN_CENTER
    /\ new_position = None
    /\ speed = INITIAL_SPEED
    /\ record_length = length
    /\ outcome = "start"
    /\ ticks = 0
    /\ pc = "sample"
    /\ events = <<>>
    /\ key_speed = speed
    /\ origin = None
    /\ steps = 0

\* new_position = (randint(0, GRID_WIDTH - 1) * GRID_SIZE, ...)
AppleSample ==
    /\ pc = "sample"
    /\ new_position' \in AllCells
    /\ pc' = "test"
    /\ UNCHANGED <<screen_vars, snake_vars, apple_position, occupied_positions,
                   aliased, speed, record_length, events, key_speed, outcome,
                   ticks, origin, steps>>

\* if new_position not in self.occupied_positions: ... break
AppleTest ==
    /\ pc = "test"
    /\ IF Free(new_position, occupied_positions)
       THEN /\ apple_position' = new_position
            /\ pc' = "placed"
       ELSE /\ apple_position' = apple_position
            /\ pc' = "sample"
    /\ UNCHANGED <<screen_vars, snake_vars, occupied_positions, aliased,
                   new_position, speed, record_length, events, key_speed,
                   outcome, ticks, origin, steps>>

NextApple == AppleSample \/ AppleTest

\* The loop keeps running, and the sampling is fair: a cell that passes the
\* test, which randint can give at every sample, is given at some sample.
SpecApple ==
    /\ InitApple
    /\ [][NextApple]_vars
    /\ WF_vars(AppleSample)
    /\ WF_vars(AppleTest)
    /\ SF_vars(AppleSample /\ Free(new_position', occupied_positions))

\* ------------------------------------------------------------------------
\* Properties.

Resets == {"reset", "eat_reset"}
Eats == {"eat", "eat_reset"}
NoDuplicates(s) == Cardinality(Range(s)) = Len(s)

\* C1: at the end of every iteration the apple's cell is not a cell of the
\* snake, also after a reset and after every later relocation.
C1_FoodOffBody == apple_position \notin Range(positions)

\* C2, as claimed: at the end of every iteration the snake has as many
\* cells as its length says.
C2_BodyIsLength == Len(positions) = length

\* C2, amended: at the end of every iteration the snake has as many cells
\* as its length says, except at the end of an iteration that ate the
\* apple and did not reset the snake, where it has one cell less.
C2_BodyIsLengthButAfterEating ==
    Len(positions) = IF outcome = "eat" THEN length - 1 ELSE length

C2_Witness == outcome = "eat" /\ length = 3 /\ Len(positions) = 2

\* C3: while handle_keys goes through the events of one iteration, a
\* direction key is stored as next_direction iff its direction is not the
\* opposite of snake.direction, a stored request replaces an earlier one,
\* a rejected one leaves next_direction as it was, and snake.direction is
\* left alone; so the direction after an iteration without a reset is the
\* last stored request, or the old direction, and never its opposite.
C3_OnlyReversalRejected ==
    [][/\ (pc = "keys" /\ pc' = "keys") =>
            /\ direction' = direction
            /\ LET e == Head(events)
               IN  next_direction' =
                      IF e \in DOMAIN direction_keys
                         /\ direction_keys[e] # Opposite(direction)
                      THEN direction_keys[e]
                      ELSE next_direction
       /\ (pc = "keys" /\ pc' = "tick" /\ outcome' \notin Resets) =>
            /\ direction' # Opposite(direction)
            /\ direction' = IF next_direction # None THEN next_direction
                            ELSE direction
      ]_vars

C3_Witness ==
    /\ pc = "keys"
    /\ next_direction \in Directions \ {direction}
    /\ events # <<>>
    /\ Head(events) \in DOMAIN direction_keys
    /\ direction_keys[Head(events)] = Opposite(direction)

\* C4: at the end of every iteration no cell occurs twice in the snake.
C4_NoDuplicateCells == NoDuplicates(positions)

C4_Witness == outcome \in Resets /\ positions = <<SCREEN_CENTER>>

C6_ResetFrame ==
    [][(pc = "keys" /\ pc' = "tick" /\ outcome' \in Resets) =>
          /\ length' = 1
          /\ positions' = <<SCREEN_CENTER>>
          /\ next_direction' = None
          /\ speed' = key_speed
          /\ record_length' = IF outcome' = "eat_reset"
                              THEN max(record_length, length + 1)
                              ELSE record_length
          /\ pc' = "tick"
      ]_vars

C6_Witness ==
    /\ outcome \in Resets
    /\ length = 1
    /\ speed = MAX_SPEED
    /\ record_length = 5
    /\ pc = "tick"

\* C7: every cell of the snake is a cell of the board: both coordinates
\* are multiples of GRID_SIZE, 0 <= x < SCREEN_WIDTH, 0 <= y < SCREEN_HEIGHT.
InBoard(c) ==
    /\ c[1] % GRID_SIZE = 0
    /\ c[2] % GRID_SIZE = 0
    /\ 0 <= c[1] /\ c[1] < SCREEN_WIDTH
    /\ 0 <= c[2] /\ c[2] < SCREEN_HEIGHT
C7_InBoard == \A c \in Range(positions) : InBoard(c)

\* A snake that has left the board on the right and come back on the left.
C7_Witness ==
    /\ Len(positions) = 2
    /\ positions[1][1] = 0
    /\ positions[2][1] = SCREEN_WIDTH - GRID_SIZE
    /\ direction = RIGHT

\* C8: the speed stays within MIN_SPEED..MAX_SPEED; a plus or equals key
\* raises it by 1 unless it is MAX_SPEED, a minus key lowers it by 1 unless
\* it is MIN_SPEED, any other event leaves it alone, and main's speed
\* changes only to what handle_keys returns.
C8_SpeedClamped ==
    /\ [](speed \in MIN_SPEED..MAX_SPEED /\ key_speed \in MIN_SPEED..MAX_SPEED)
    /\ [][/\ (pc = "keys" /\ pc' = "keys") =>
                /\ speed' = speed
                /\ LET e == Head(events)
                   IN  key_speed' =
                          CASE e \in {"K_PLUS", "K_EQUALS"} /\ key_speed < MAX_SPEED
                                  -> key_speed + 1
                            [] e = "K_MINUS" /\ key_speed > MIN_SPEED
                                  -> key_speed - 1
                            [] OTHER -> key_speed
          /\ (pc = "keys" /\ pc' = "tick") => speed' = key_speed
          /\ pc' = "exit" => speed' = speed
         ]_vars

C8_Witness ==
    /\ pc = "keys"
    /\ speed = MAX_SPEED - 1
    /\ key_speed = MAX_SPEED
    /\ events # <<>>
    /\ Head(events) \in {"K_PLUS", "K_EQUALS"}

\* C9: when the for loop of handle_keys meets a QUIT event or the escape
\* key, the program ends there: the snake, the apple, the speed and the
\* record are as they were, the events behind it stay unhandled, and no
\* step follows.
C9_QuitEndsTheLoop ==
    [][/\ pc # "exit"
       /\ (pc = "keys" /\ events # <<>> /\ Head(events) \in {"QUIT", "K_ESCAPE"}) =>
             /\ pc' = "exit"
             /\ events' = Tail(events)
             /\ UNCHANGED <<snake_vars, apple_vars, speed, record_length>>
       /\ pc' = "exit" =>
             (events # <<>> /\ Head(events) \in {"QUIT", "K_ESCAPE"})
      ]_vars

\* A direction key behind the quit event was not handled.
C9_Witness ==
    /\ pc = "exit"
    /\ events # <<>>
    /\ Head(events) \in DOMAIN direction_keys
    /\ direction_keys[Head(events)] # Opposite(direction)
    /\ next_direction = None

\* C10: a snake that has made n moves since its direction was last set
\* has its head n cells from where it was then, along the direction and
\* modulo the board's extent on that axis; on the 32 x 24 board a head
\* that starts at cell (16, 12) is at cell (15, 12) after 31 moves RIGHT.
Advance(c, d, n) ==
    <<((c[1] \div GRID_SIZE + n * d[1] + n * GRID_WIDTH) % GRID_WIDTH) * GRID_SIZE,
      ((c[2] \div GRID_SIZE + n * d[2] + n * GRID_HEIGHT) % GRID_HEIGHT) * GRID_SIZE>>

C10_StraightRun ==
    /\ positions[1] = Advance(origin, direction, steps)
    /\ (origin = <<16 * GRID_SIZE, 12 * GRID_SIZE>> /\ direction = RIGHT /\ steps = 31)
          => positions[1] = <<15 * GRID_SIZE, 12 * GRID_SIZE>>

C10_Witness ==
    /\ origin = <<16 * GRID_SIZE, 12 * GRID_SIZE>>
    /\ direction = RIGHT
    /\ steps = 31
    /\ length = 1
    /\ positions = <<<<15 * GRID_SIZE, 12 * GRID_SIZE>>>>

\* C11, as claimed: an iteration whose move puts the head on the apple and
\* that does not reset the snake adds one to the length and leaves the
\* apple on a cell that is neither the new head nor a cell the snake had
\* before the move; a one-cell snake that moves RIGHT from cell (5, 5) of
\* the 32 x 24 board onto the apple at cell (6, 5) has length 2 afterwards,
\* and the apple is neither at (6, 5) nor at (5, 5).  (On the model's
\* board the one-cell snake is at the centre.)
C11_GrowsAndFoodMovesOff ==
    [][(pc' = "tick" /\ outcome' = "eat") =>
          /\ length' = length + 1
          /\ apple_position' # positions'[1]
          /\ apple_position' \notin Range(positions)
      ]_vars

\* C11, amended: an iteration whose move puts the head on the apple and
\* that does not reset the snake adds one to the length and leaves the
\* apple on a cell that is not in the apple's list; as long as that list
\* is the snake's own, it is the snake after the move, so the apple is on
\* no cell of the snake (its new head included); it can be on the cell the
\* move has taken from the tail.
C11_GrowsAndFoodLeavesTheList ==
    [][(pc' = "tick" /\ outcome' = "eat") =>
          /\ length' = length + 1
          /\ apple_position' \notin Range(occupied_positions')
          /\ aliased => /\ occupied_positions' = positions'
                         /\ apple_position' \notin Range(positions')
      ]_vars

\* The one-cell snake has eaten and the apple is on the cell it has left.
C11_Witness ==
    /\ pc = "tick"
    /\ outcome = "eat"
    /\ aliased
    /\ length = 2
    /\ positions = <<NewHead(SCREEN_CENTER, direction)>>
    /\ apple_position = SCREEN_CENTER

\* C12: when every cell of the board is in the apple's list,
\* randomize_position does not go on sampling for ever: it leaves its loop.
C12_GivesUpOnFullBoard ==
    (pc \in {"sample", "test"} /\ AllCells \subseteq Range(occupied_positions))
        ~> (pc \notin {"sample", "test"})

\* C13: the rest of an iteration applies the requested direction, moves the
\* snake, and only then looks at the head: the length grows iff the head
\* after the move is where the apple was at the top of the iteration, the
\* snake is reset iff that head is on another cell of the snake after the
\* move, and the length changes in no other way: by +1 when the snake has
\* eaten, to 1 when it is reset, not at all in handle_keys or by the move.
C13_MoveThenChecks ==
    [][/\ (pc = "keys" /\ pc' = "tick") =>
            LET d == IF next_direction # None THEN next_direction ELSE direction
                head == NewHead(positions[1], d)
                kept == IF Len(positions) + 1 > length THEN Front(positions)
                        ELSE positions
            IN  /\ (outcome' \in Eats) <=> (head = apple_position)
                /\ (outcome' \in Resets) <=> (head \in Range(kept))
                /\ outcome' \notin Resets =>
                      /\ direction' = d
                      /\ positions' = <<head>> \o kept
                /\ length' = CASE outcome' \in Resets -> 1
                                [] outcome' = "eat" -> length + 1
                                [] OTHER -> length
       /\ ~(pc = "keys" /\ pc' = "tick") => length' = length
      ]_vars

\* The coiled snake, going LEFT, was asked to turn DOWN: it has turned,
\* moved onto its last cell and been reset.
C13_Witness ==
    /\ pc = "tick"
    /\ outcome = "reset"
    /\ ~aliased
    /\ occupied_positions = StaleBody
    /\ positions = <<SCREEN_CENTER>>
    /\ length = 1

\* C14: after the move of every iteration, snake.last is the cell that
\* move has popped from the tail, or None when that move has popped none;
\* after a reset it is None.
C14_LastIsThisMovesTail ==
    [][(pc' = "tick" /\ ticks' = ticks + 1) =>
          last' = IF outcome' \in Resets THEN None
                  ELSE IF Len(positions') = Len(positions) THEN Last(positions)
                  ELSE None
      ]_vars

\* C15: the move that follows a growth (the snake has one cell less than
\* its length) puts the new head in front of the whole snake: no cell is
\* dropped and the snake is one cell longer; a move of a snake that has as
\* many cells as its length drops the last cell, which becomes snake.last,
\* and the snake keeps its size.  (Seen at the end of the iterations that
\* do not reset the snake.)
C15_GrowthKeepsTheTail ==
    [][(pc' = "tick" /\ ticks' = ticks + 1 /\ outcome' \notin Resets) =>
          LET head == NewHead(positions[1], direction')
          IN  IF Len(positions) = length - 1
              THEN /\ positions' = <<head>> \o positions
                   /\ Len(positions') = Len(positions) + 1
              ELSE /\ positions' = <<head>> \o Front(positions)
                   /\ Len(positions') = Len(positions)
                   /\ last' = Last(positions)
      ]_vars

\* The snake ate in the first iteration and has made the move after it.
C15_Witness ==
    /\ ticks = 2
    /\ outcome = "move"
    /\ length = 2
    /\ Len(positions) = 2
    /\ positions[2] \in {NewHead(SCREEN_CENTER, d) : d \in Directions}

\* C16: when some cell of the board is not in the apple's list,
\* randomize_position returns (its samples being fair), and when it has
\* returned, the apple is on a cell of the grid, inside the board, that is
\* not in the list: one of the cells randomize_position(occupied) stands
\* for in the loop of main.
C16_RelocationEnds ==
    /\ [](pc = "placed" =>
            /\ apple_position[1] % GRID_SIZE = 0
            /\ apple_position[2] % GRID_SIZE = 0
            /\ apple_position[1] \in 0..(screen_width - 1)
            /\ apple_position[2] \in 0..(screen_height - 1)
            /\ \A i \in DOMAIN occupied_positions :
                  occupied_positions[i] # apple_position
            /\ apple_position \in randomize_position(occupied_positions))
    /\ (\E c \in AllCells : \A i \in DOMAIN occupied_positions :
                                occupied_positions[i] # c)
          ~> (pc = "placed")

\* The apple was given a snake that leaves one cell of the board free, and
\* is on that cell.
C16_Witness ==
    /\ pc = "placed"
    /\ Len(occupied_positions) = GRID_WIDTH * GRID_HEIGHT - 1
    /\ apple_position = WalkCell(GRID_WIDTH * GRID_HEIGHT - 1)

\* C17: from the start until the snake is first reset, the apple's list is
\* the snake's own list, and at the end of every iteration the apple is on
\* no cell of the snake; the head reaches the apple's cell only in an
\* iteration that eats it, and the list stays the snake's own in every
\* iteration that does not reset the snake.
C17_FoodOffBodyBeforeReset ==
    /\ [](aliased => /\ occupied_positions = positions
                      /\ apple_position \notin Range(positions))
    /\ [](outcome = "start" => aliased)
    /\ [][/\ (aliased /\ ~aliased') => (pc' = "tick" /\ outcome' \in Resets)
          /\ (aliased /\ pc' = "tick" /\ outcome' = "move")
                => /\ positions'[1] # apple_position
                   /\ apple_position' = apple_position
         ]_vars

\* The snake has eaten four times and never been reset.
C17_Witness ==
    /\ aliased
    /\ outcome = "eat"
    /\ ticks = 4
    /\ length = 5
    /\ Len(positions) = 4

\* C18: at the end of every iteration the snake has length or length - 1
\* cells, never more than length; it has length - 1 exactly when the
\* iteration has eaten and not reset the snake, also when the iteration
\* before it had eaten as well.
C18_BodyLagsByOne ==
    /\ Len(positions) <= length
    /\ Len(positions) >= length - 1
    /\ (Len(positions) = length - 1) <=> (outcome = "eat")

\* The snake has eaten in the first two iterations.
C18_Witness ==
    /\ ticks = 2
    /\ outcome = "eat"
    /\ record_length = 3
    /\ length = 3
    /\ Len(positions) = 2

\* C19: on a board of at least 4 cells on each axis (the model's has 4),
\* no iteration that starts with a snake of length 4 or less resets the
\* snake, whatever the keys and the apple's cells are.
C19_NoResetUpToLength4 ==
    /\ [](GRID_WIDTH >= 4 /\ GRID_HEIGHT >= 4)
    /\ [][(pc' = "tick" /\ ticks' = ticks + 1 /\ outcome' \in Resets)
              => length >= 5]_vars

\* A snake of length 4 bent into a square: its head is next to its last
\* cell, and its next move pops that cell before the head can reach it.
C19_Witness ==
    /\ pc = "tick"
    /\ outcome = "move"
    /\ length = 4
    /\ Len(positions) = 4
    /\ positions[4] \in {NewHead(positions[1], d) : d \in Directions}

\* C20: at the end of every iteration two consecutive cells of the snake
\* are neighbours on the torus: on one axis they differ by one cell, modulo
\* the board's extent, and on the other axis they are equal.
OneCellApart(a, b, extent) ==
    (a - b + extent) % extent \in {GRID_SIZE, extent - GRID_SIZE}

Neighbours(a, b) ==
    \/ OneCellApart(a[1], b[1], screen_width) /\ a[2] = b[2]
    \/ OneCellApart(a[2], b[2], screen_height) /\ a[1] = b[1]

C20_SegmentsAreNeighbours ==
    \A i \in 1..(Len(positions) - 1) : Neighbours(positions[i], positions[i + 1])

\* A snake of three cells that has gone around the left edge and turned.
C20_Witness ==
    /\ pc = "tick"
    /\ Len(positions) = 3
    /\ positions[3][1] = 0
    /\ positions[2][1] = screen_width - GRID_SIZE
    /\ positions[1][2] # positions[2][2]

====
